---- MODULE Spec2Model ----
(***************************************************************************)
(* The conversation engine of src/chatbox.js (the MentalHealthChatbox      *)
(* component): its session state, the mount effect and the event handlers  *)
(* that change it, and the template tables the handlers read.              *)
(*                                                                         *)
(* A JavaScript string is modelled as the sequence of its UTF-16 code      *)
(* units, so that toLowerCase, trim, includes and the template literal of  *)
(* handleMoodSelection are computed as the engine computes them.  Each     *)
(* literal is preceded by a comment showing the string it encodes.         *)
(* A message is the record [text, sender]; its timestamp (the wall clock   *)
(* formatted for display) is not modelled.                                 *)
(***************************************************************************)
EXTENDS Integers, Sequences, FiniteSets, TLC

(* ------------------------------ bounds -------------------------------- *)

\* The largest number of user/bot exchanges appended after the greeting.
MaxExchanges == 2

\* The largest number of words of a composed message (SpecClassify).
MaxWords == 2

(* ------------------------- closed sets of tags ------------------------ *)

\* The <option> values of the language selector.
Languages == {"english", "hindi", "marathi", "kannada"}

\* Object.keys(translations[currentLanguage].moodLabels): the mood buttons.
Moods == {"happy", "sad", "anxious", "angry", "calm", "confused"}

\* useState(null) for userMood.
null == "null"

(* ------------------------------ templates ----------------------------- *)

translations ==
  [english |->
     [greeting |->
        \* "Hello! I'm here to support you. How are you feeling today? 😊"
        <<72, 101, 108, 108, 111, 33, 32, 73, 39, 109, 32, 104, 101, 114, 101, 32, 116, 111, 32, 115, 117, 112, 112, 111, 114, 116, 32, 121, 111, 117, 46, 32, 72, 111, 119, 32, 97, 114, 101, 32, 121, 111, 117, 32, 102, 101, 101, 108, 105, 110, 103, 32, 116, 111, 100, 97, 121, 63, 32, 55357, 56842>>,
      moodLabels |->
        \* "Happy"
        [happy |-> <<72, 97, 112, 112, 121>>,
         \* "Sad"
         sad |-> <<83, 97, 100>>,
         \* "Anxious"
         anxious |-> <<65, 110, 120, 105, 111, 117, 115>>,
         \* "Angry"
         angry |-> <<65, 110, 103, 114, 121>>,
         \* "Calm"
         calm |-> <<67, 97, 108, 109>>,
         \* "Confused"
         confused |-> <<67, 111, 110, 102, 117, 115, 101, 100>>]],
   hindi |->
     [greeting |->
        \* "नमस्ते! मैं आपकी सहायता के लिए यहाँ हूँ। आज आप कैसा महसूस कर रहे हैं? 😊"
        <<2344, 2350, 2360, 2381, 2340, 2375, 33, 32, 2350, 2376, 2306, 32, 2310, 2346, 2325, 2368, 32, 2360, 2361, 2366, 2351, 2340, 2366, 32, 2325, 2375, 32, 2354, 2367, 2319, 32, 2351, 2361, 2366, 2305, 32, 2361, 2370, 2305, 2404, 32, 2310, 2332, 32, 2310, 2346, 32, 2325, 2376, 2360, 2366, 32, 2350, 2361, 2360, 2370, 2360, 32, 2325, 2352, 32, 2352, 2361, 2375, 32, 2361, 2376, 2306, 63, 32, 55357, 56842>>,
      moodLabels |->
        \* "खुश"
        [happy |-> <<2326, 2369, 2358>>,
         \* "उदास"
         sad |-> <<2313, 2342, 2366, 2360>>,
         \* "चिंतित"
         anxious |-> <<2330, 2367, 2306, 2340, 2367, 2340>>,
         \* "गुस्सा"
         angry |-> <<2327, 2369, 2360, 2381, 2360, 2366>>,
         \* "शांत"
         calm |-> <<2358, 2366, 2306, 2340>>,
         \* "भ्रमित"
         confused |-> <<2349, 2381, 2352, 2350, 2367, 2340>>]],
   marathi |->
     [greeting |->
        \* "नमस्कार! मी तुमच्या मदतीसाठी येथे आहे। आज तुम्ही कसे वाटत आहात? 😊"
        <<2344, 2350, 2360, 2381, 2325, 2366, 2352, 33, 32, 2350, 2368, 32, 2340, 2369, 2350, 2330, 2381, 2351, 2366, 32, 2350, 2342, 2340, 2368, 2360, 2366, 2336, 2368, 32, 2351, 2375, 2341, 2375, 32, 2310, 2361, 2375, 2404, 32, 2310, 2332, 32, 2340, 2369, 2350, 2381, 2361, 2368, 32, 2325, 2360, 2375, 32, 2357, 2366, 2335, 2340, 32, 2310, 2361, 2366, 2340, 63, 32, 55357, 56842>>,
      moodLabels |->
        \* "आनंदी"
        [happy |-> <<2310, 2344, 2306, 2342, 2368>>,
         \* "दुःखी"
         sad |-> <<2342, 2369, 2307, 2326, 2368>>,
         \* "चिंताग्रस्त"
         anxious |-> <<2330, 2367, 2306, 2340, 2366, 2327, 2381, 2352, 2360, 2381, 2340>>,
         \* "रागावलेला"
         angry |-> <<2352, 2366, 2327, 2366, 2357, 2354, 2375, 2354, 2366>>,
         \* "शांत"
         calm |-> <<2358, 2366, 2306, 2340>>,
         \* "गोंधळलेला"
         confused |-> <<2327, 2379, 2306, 2343, 2355, 2354, 2375, 2354, 2366>>]],
   kannada |->
     [greeting |->
        \* "ನಮಸ್ಕಾರ! ನಿಮ್ಮನ್ನು ಬೆಂಬಲಿಸಲು ನಾನು ಇಲ್ಲಿದ್ದೇನೆ। ಇಂದು ನೀವು ಹೇಗೆ ಅನಿಸುತ್ತಿದೆ? 😊"
        <<3240, 3246, 3256, 3277, 3221, 3262, 3248, 33, 32, 3240, 3263, 3246, 3277, 3246, 3240, 3277, 3240, 3265, 32, 3244, 3270, 3202, 3244, 3250, 3263, 3256, 3250, 3265, 32, 3240, 3262, 3240, 3265, 32, 3207, 3250, 3277, 3250, 3263, 3238, 3277, 3238, 3271, 3240, 3270, 2404, 32, 3207, 3202, 3238, 3265, 32, 3240, 3264, 3253, 3265, 32, 3257, 3271, 3223, 3270, 32, 3205, 3240, 3263, 3256, 3265, 3236, 3277, 3236, 3263, 3238, 3270, 63, 32, 55357, 56842>>,
      moodLabels |->
        \* "ಸಂತೋಷ"
        [happy |-> <<3256, 3202, 3236, 3275, 3255>>,
         \* "ದುಃಖ"
         sad |-> <<3238, 3265, 3203, 3222>>,
         \* "ಆತಂಕ"
         anxious |-> <<3206, 3236, 3202, 3221>>,
         \* "ಕೋಪ"
         angry |-> <<3221, 3275, 3242>>,
         \* "ಶಾಂತ"
         calm |-> <<3254, 3262, 3202, 3236>>,
         \* "ಗೊಂದಲ"
         confused |-> <<3223, 3274, 3202, 3238, 3250>>]]]

mentalHealthResponses ==
  [depression |->
     [english |-> <<
        \* "I understand you're going through a tough time. Remember, it's okay to feel this way, and you're not alone. 🤗 Try taking small steps like going for a walk or talking to someone you trust."
        <<73, 32, 117, 110, 100, 101, 114, 115, 116, 97, 110, 100, 32, 121, 111, 117, 39, 114, 101, 32, 103, 111, 105, 110, 103, 32, 116, 104, 114, 111, 117, 103, 104, 32, 97, 32, 116, 111, 117, 103, 104, 32, 116, 105, 109, 101, 46, 32, 82, 101, 109, 101, 109, 98, 101, 114, 44, 32, 105, 116, 39, 115, 32, 111, 107, 97, 121, 32, 116, 111, 32, 102, 101, 101, 108, 32, 116, 104, 105, 115, 32, 119, 97, 121, 44, 32, 97, 110, 100, 32, 121, 111, 117, 39, 114, 101, 32, 110, 111, 116, 32, 97, 108, 111, 110, 101, 46, 32, 55358, 56599, 32, 84, 114, 121, 32, 116, 97, 107, 105, 110, 103, 32, 115, 109, 97, 108, 108, 32, 115, 116, 101, 112, 115, 32, 108, 105, 107, 101, 32, 103, 111, 105, 110, 103, 32, 102, 111, 114, 32, 97, 32, 119, 97, 108, 107, 32, 111, 114, 32, 116, 97, 108, 107, 105, 110, 103, 32, 116, 111, 32, 115, 111, 109, 101, 111, 110, 101, 32, 121, 111, 117, 32, 116, 114, 117, 115, 116, 46>>,
        \* "Depression can feel overwhelming, but you're stronger than you know. 💪 Consider practicing deep breathing exercises or journaling your thoughts."
        <<68, 101, 112, 114, 101, 115, 115, 105, 111, 110, 32, 99, 97, 110, 32, 102, 101, 101, 108, 32, 111, 118, 101, 114, 119, 104, 101, 108, 109, 105, 110, 103, 44, 32, 98, 117, 116, 32, 121, 111, 117, 39, 114, 101, 32, 115, 116, 114, 111, 110, 103, 101, 114, 32, 116, 104, 97, 110, 32, 121, 111, 117, 32, 107, 110, 111, 119, 46, 32, 55357, 56490, 32, 67, 111, 110, 115, 105, 100, 101, 114, 32, 112, 114, 97, 99, 116, 105, 99, 105, 110, 103, 32, 100, 101, 101, 112, 32, 98, 114, 101, 97, 116, 104, 105, 110, 103, 32, 101, 120, 101, 114, 99, 105, 115, 101, 115, 32, 111, 114, 32, 106, 111, 117, 114, 110, 97, 108, 105, 110, 103, 32, 121, 111, 117, 114, 32, 116, 104, 111, 117, 103, 104, 116, 115, 46>> >>,
      hindi |-> <<
        \* "मैं समझ सकता हूँ कि आप कठिन समय से गुजर रहे हैं। याद रखें, ऐसा महसूस करना ठीक है, और आप अकेले नहीं हैं। 🤗 छोटे कदम उठाने की कोशिश करें जैसे टहलना या किसी विश्वसनीय व्यक्ति से बात करना।"
        <<2350, 2376, 2306, 32, 2360, 2350, 2333, 32, 2360, 2325, 2340, 2366, 32, 2361, 2370, 2305, 32, 2325, 2367, 32, 2310, 2346, 32, 2325, 2336, 2367, 2344, 32, 2360, 2350, 2351, 32, 2360, 2375, 32, 2327, 2369, 2332, 2352, 32, 2352, 2361, 2375, 32, 2361, 2376, 2306, 2404, 32, 2351, 2366, 2342, 32, 2352, 2326, 2375, 2306, 44, 32, 2320, 2360, 2366, 32, 2350, 2361, 2360, 2370, 2360, 32, 2325, 2352, 2344, 2366, 32, 2336, 2368, 2325, 32, 2361, 2376, 44, 32, 2324, 2352, 32, 2310, 2346, 32, 2309, 2325, 2375, 2354, 2375, 32, 2344, 2361, 2368, 2306, 32, 2361, 2376, 2306, 2404, 32, 55358, 56599, 32, 2331, 2379, 2335, 2375, 32, 2325, 2342, 2350, 32, 2313, 2336, 2366, 2344, 2375, 32, 2325, 2368, 32, 2325, 2379, 2358, 2367, 2358, 32, 2325, 2352, 2375, 2306, 32, 2332, 2376, 2360, 2375, 32, 2335, 2361, 2354, 2344, 2366, 32, 2351, 2366, 32, 2325, 2367, 2360, 2368, 32, 2357, 2367, 2358, 2381, 2357, 2360, 2344, 2368, 2351, 32, 2357, 2381, 2351, 2325, 2381, 2340, 2367, 32, 2360, 2375, 32, 2348, 2366, 2340, 32, 2325, 2352, 2344, 2366, 2404>> >>,
      marathi |-> <<
        \* "मला समजते की तुम्ही कठीण काळातून जात आहात। लक्षात ठेवा, असे वाटणे सामान्य आहे, आणि तुम्ही एकटे नाही आहात। 🤗 लहान पावले उचलण्याचा प्रयत्न करा जसे फिरायला जाणे किंवा तुमच्या विश्वासू व्यक्तीशी बोलणे।"
        <<2350, 2354, 2366, 32, 2360, 2350, 2332, 2340, 2375, 32, 2325, 2368, 32, 2340, 2369, 2350, 2381, 2361, 2368, 32, 2325, 2336, 2368, 2339, 32, 2325, 2366, 2355, 2366, 2340, 2370, 2344, 32, 2332, 2366, 2340, 32, 2310, 2361, 2366, 2340, 2404, 32, 2354, 2325, 2381, 2359, 2366, 2340, 32, 2336, 2375, 2357, 2366, 44, 32, 2309, 2360, 2375, 32, 2357, 2366, 2335, 2339, 2375, 32, 2360, 2366, 2350, 2366, 2344, 2381, 2351, 32, 2310, 2361, 2375, 44, 32, 2310, 2339, 2367, 32, 2340, 2369, 2350, 2381, 2361, 2368, 32, 2319, 2325, 2335, 2375, 32, 2344, 2366, 2361, 2368, 32, 2310, 2361, 2366, 2340, 2404, 32, 55358, 56599, 32, 2354, 2361, 2366, 2344, 32, 2346, 2366, 2357, 2354, 2375, 32, 2313, 2330, 2354, 2339, 2381, 2351, 2366, 2330, 2366, 32, 2346, 2381, 2352, 2351, 2340, 2381, 2344, 32, 2325, 2352, 2366, 32, 2332, 2360, 2375, 32, 2347, 2367, 2352, 2366, 2351, 2354, 2366, 32, 2332, 2366, 2339, 2375, 32, 2325, 2367, 2306, 2357, 2366, 32, 2340, 2369, 2350, 2330, 2381, 2351, 2366, 32, 2357, 2367, 2358, 2381, 2357, 2366, 2360, 2370, 32, 2357, 2381, 2351, 2325, 2381, 2340, 2368, 2358, 2368, 32, 2348, 2379, 2354, 2339, 2375, 2404>> >>,
      kannada |-> <<
        \* "ನೀವು ಕಷ್ಟದ ಸಮಯದಲ್ಲಿದ್ದೀರಿ ಎಂದು ನನಗೆ ಅರ್ಥವಾಗುತ್ತದೆ। ನೆನಪಿಡಿ, ಹೀಗೆ ಅನಿಸುವುದು ಸಾಮಾನ್ಯ, ಮತ್ತು ನೀವು ಒಬ್ಬಂಟಿಗರಲ್ಲ। 🤗 ನಡೆಯಲು ಹೋಗುವುದು ಅಥವಾ ನಂಬಿಕೆಯ ವ್ಯಕ್ತಿಯೊಂದಿಗೆ ಮಾತನಾಡುವಂತಹ ಸಣ್ಣ ಹೆಜ್ಜೆಗಳನ್ನು ತೆಗೆದುಕೊಳ್ಳಲು ಪ್ರಯತ್ನಿಸಿ।"
        <<3240, 3264, 3253, 3265, 32, 3221, 3255, 3277, 3231, 3238, 32, 3256, 3246, 3247, 3238, 3250, 3277, 3250, 3263, 3238, 3277, 3238, 3264, 3248, 3263, 32, 3214, 3202, 3238, 3265, 32, 3240, 3240, 3223, 3270, 32, 3205, 3248, 3277, 3237, 3253, 3262, 3223, 3265, 3236, 3277, 3236, 3238, 3270, 2404, 32, 3240, 3270, 3240, 3242, 3263, 3233, 3263, 44, 32, 3257, 3264, 3223, 3270, 32, 3205, 3240, 3263, 3256, 3265, 3253, 3265, 3238, 3265, 32, 3256, 3262, 3246, 3262, 3240, 3277, 3247, 44, 32, 3246, 3236, 3277, 3236, 3265, 32, 3240, 3264, 3253, 3265, 32, 3218, 3244, 3277, 3244, 3202, 3231, 3263, 3223, 3248, 3250, 3277, 3250, 2404, 32, 55358, 56599, 32, 3240, 3233, 3270, 3247, 3250, 3265, 32, 3257, 3275, 3223, 3265, 3253, 3265, 3238, 3265, 32, 3205, 3237, 3253, 3262, 32, 3240, 3202, 3244, 3263, 3221, 3270, 3247, 32, 3253, 3277, 3247, 3221, 3277, 3236, 3263, 3247, 3274, 3202, 3238, 3263, 3223, 3270, 32, 3246, 3262, 3236, 3240, 3262, 3233, 3265, 3253, 3202, 3236, 3257, 32, 3256, 3235, 3277, 3235, 32, 3257, 3270, 3228, 3277, 3228, 3270, 3223, 3251, 3240, 3277, 3240, 3265, 32, 3236, 3270, 3223, 3270, 3238, 3265, 3221, 3274, 3251, 3277, 3251, 3250, 3265, 32, 3242, 3277, 3248, 3247, 3236, 3277, 3240, 3263, 3256, 3263, 2404>> >>],
   anxiety |->
     [english |-> <<
        \* "Anxiety can be really challenging. Try the 4-7-8 breathing technique: breathe in for 4, hold for 7, exhale for 8. 🌬️ You're going to get through this."
        <<65, 110, 120, 105, 101, 116, 121, 32, 99, 97, 110, 32, 98, 101, 32, 114, 101, 97, 108, 108, 121, 32, 99, 104, 97, 108, 108, 101, 110, 103, 105, 110, 103, 46, 32, 84, 114, 121, 32, 116, 104, 101, 32, 52, 45, 55, 45, 56, 32, 98, 114, 101, 97, 116, 104, 105, 110, 103, 32, 116, 101, 99, 104, 110, 105, 113, 117, 101, 58, 32, 98, 114, 101, 97, 116, 104, 101, 32, 105, 110, 32, 102, 111, 114, 32, 52, 44, 32, 104, 111, 108, 100, 32, 102, 111, 114, 32, 55, 44, 32, 101, 120, 104, 97, 108, 101, 32, 102, 111, 114, 32, 56, 46, 32, 55356, 57132, 65039, 32, 89, 111, 117, 39, 114, 101, 32, 103, 111, 105, 110, 103, 32, 116, 111, 32, 103, 101, 116, 32, 116, 104, 114, 111, 117, 103, 104, 32, 116, 104, 105, 115, 46>>,
        \* "I hear you're feeling anxious. Ground yourself by naming 5 things you can see, 4 you can touch, 3 you can hear, 2 you can smell, and 1 you can taste. 🧘‍♀️"
        <<73, 32, 104, 101, 97, 114, 32, 121, 111, 117, 39, 114, 101, 32, 102, 101, 101, 108, 105, 110, 103, 32, 97, 110, 120, 105, 111, 117, 115, 46, 32, 71, 114, 111, 117, 110, 100, 32, 121, 111, 117, 114, 115, 101, 108, 102, 32, 98, 121, 32, 110, 97, 109, 105, 110, 103, 32, 53, 32, 116, 104, 105, 110, 103, 115, 32, 121, 111, 117, 32, 99, 97, 110, 32, 115, 101, 101, 44, 32, 52, 32, 121, 111, 117, 32, 99, 97, 110, 32, 116, 111, 117, 99, 104, 44, 32, 51, 32, 121, 111, 117, 32, 99, 97, 110, 32, 104, 101, 97, 114, 44, 32, 50, 32, 121, 111, 117, 32, 99, 97, 110, 32, 115, 109, 101, 108, 108, 44, 32, 97, 110, 100, 32, 49, 32, 121, 111, 117, 32, 99, 97, 110, 32, 116, 97, 115, 116, 101, 46, 32, 55358, 56792, 8205, 9792, 65039>> >>,
      hindi |-> <<
        \* "चिंता वास्तव में चुनौतीपूर्ण हो सकती है। 4-7-8 सांस लेने की तकनीक आज़माएं: 4 के लिए सांस लें, 7 के लिए रोकें, 8 के लिए छोड़ें। 🌬️ आप इससे निकल जाएंगे।"
        <<2330, 2367, 2306, 2340, 2366, 32, 2357, 2366, 2360, 2381, 2340, 2357, 32, 2350, 2375, 2306, 32, 2330, 2369, 2344, 2380, 2340, 2368, 2346, 2370, 2352, 2381, 2339, 32, 2361, 2379, 32, 2360, 2325, 2340, 2368, 32, 2361, 2376, 2404, 32, 52, 45, 55, 45, 56, 32, 2360, 2366, 2306, 2360, 32, 2354, 2375, 2344, 2375, 32, 2325, 2368, 32, 2340, 2325, 2344, 2368, 2325, 32, 2310, 2332, 2364, 2350, 2366, 2319, 2306, 58, 32, 52, 32, 2325, 2375, 32, 2354, 2367, 2319, 32, 2360, 2366, 2306, 2360, 32, 2354, 2375, 2306, 44, 32, 55, 32, 2325, 2375, 32, 2354, 2367, 2319, 32, 2352, 2379, 2325, 2375, 2306, 44, 32, 56, 32, 2325, 2375, 32, 2354, 2367, 2319, 32, 2331, 2379, 2337, 2364, 2375, 2306, 2404, 32, 55356, 57132, 65039, 32, 2310, 2346, 32, 2311, 2360, 2360, 2375, 32, 2344, 2367, 2325, 2354, 32, 2332, 2366, 2319, 2306, 2327, 2375, 2404>> >>,
      marathi |-> <<
        \* "चिंता खरोखरच आव्हानात्मक असू शकते। 4-7-8 श्वास तंत्र वापरून पहा: 4 साठी श्वास घ्या, 7 साठी धरा, 8 साठी सोडा। 🌬️ तुम्ही यातून बाहेर पडाल।"
        <<2330, 2367, 2306, 2340, 2366, 32, 2326, 2352, 2379, 2326, 2352, 2330, 32, 2310, 2357, 2381, 2361, 2366, 2344, 2366, 2340, 2381, 2350, 2325, 32, 2309, 2360, 2370, 32, 2358, 2325, 2340, 2375, 2404, 32, 52, 45, 55, 45, 56, 32, 2358, 2381, 2357, 2366, 2360, 32, 2340, 2306, 2340, 2381, 2352, 32, 2357, 2366, 2346, 2352, 2370, 2344, 32, 2346, 2361, 2366, 58, 32, 52, 32, 2360, 2366, 2336, 2368, 32, 2358, 2381, 2357, 2366, 2360, 32, 2328, 2381, 2351, 2366, 44, 32, 55, 32, 2360, 2366, 2336, 2368, 32, 2343, 2352, 2366, 44, 32, 56, 32, 2360, 2366, 2336, 2368, 32, 2360, 2379, 2337, 2366, 2404, 32, 55356, 57132, 65039, 32, 2340, 2369, 2350, 2381, 2361, 2368, 32, 2351, 2366, 2340, 2370, 2344, 32, 2348, 2366, 2361, 2375, 2352, 32, 2346, 2337, 2366, 2354, 2404>> >>,
      kannada |-> <<
        \* "ಆತಂಕವು ನಿಜವಾಗಿಯೂ ಸವಾಲಿನದ್ದಾಗಿರಬಹುದು। 4-7-8 ಉಸಿರಾಟದ ತಂತ್ರವನ್ನು ಪ್ರಯತ್ನಿಸಿ: 4 ಕ್ಕೆ ಉಸಿರು ತೆಗೆದುಕೊಳ್ಳಿ, 7 ಕ್ಕೆ ಹಿಡಿದಿಟ್ಟುಕೊಳ್ಳಿ, 8 ಕ್ಕೆ ಬಿಡಿ। 🌬️ ನೀವು ಇದನ್ನು ಜಯಿಸುವಿರಿ।"
        <<3206, 3236, 3202, 3221, 3253, 3265, 32, 3240, 3263, 3228, 3253, 3262, 3223, 3263, 3247, 3266, 32, 3256, 3253, 3262, 3250, 3263, 3240, 3238, 3277, 3238, 3262, 3223, 3263, 3248, 3244, 3257, 3265, 3238, 3265, 2404, 32, 52, 45, 55, 45, 56, 32, 3209, 3256, 3263, 3248, 3262, 3231, 3238, 32, 3236, 3202, 3236, 3277, 3248, 3253, 3240, 3277, 3240, 3265, 32, 3242, 3277, 3248, 3247, 3236, 3277, 3240, 3263, 3256, 3263, 58, 32, 52, 32, 3221, 3277, 3221, 3270, 32, 3209, 3256, 3263, 3248, 3265, 32, 3236, 3270, 3223, 3270, 3238, 3265, 3221, 3274, 3251, 3277, 3251, 3263, 44, 32, 55, 32, 3221, 3277, 3221, 3270, 32, 3257, 3263, 3233, 3263, 3238, 3263, 3231, 3277, 3231, 3265, 3221, 3274, 3251, 3277, 3251, 3263, 44, 32, 56, 32, 3221, 3277, 3221, 3270, 32, 3244, 3263, 3233, 3263, 2404, 32, 55356, 57132, 65039, 32, 3240, 3264, 3253, 3265, 32, 3207, 3238, 3240, 3277, 3240, 3265, 32, 3228, 3247, 3263, 3256, 3265, 3253, 3263, 3248, 3263, 2404>> >>],
   stress |->
     [english |-> <<
        \* "Stress is your body's way of responding to challenges. Take a moment to pause and breathe deeply. 🌸 Consider breaking your tasks into smaller, manageable pieces."
        <<83, 116, 114, 101, 115, 115, 32, 105, 115, 32, 121, 111, 117, 114, 32, 98, 111, 100, 121, 39, 115, 32, 119, 97, 121, 32, 111, 102, 32, 114, 101, 115, 112, 111, 110, 100, 105, 110, 103, 32, 116, 111, 32, 99, 104, 97, 108, 108, 101, 110, 103, 101, 115, 46, 32, 84, 97, 107, 101, 32, 97, 32, 109, 111, 109, 101, 110, 116, 32, 116, 111, 32, 112, 97, 117, 115, 101, 32, 97, 110, 100, 32, 98, 114, 101, 97, 116, 104, 101, 32, 100, 101, 101, 112, 108, 121, 46, 32, 55356, 57144, 32, 67, 111, 110, 115, 105, 100, 101, 114, 32, 98, 114, 101, 97, 107, 105, 110, 103, 32, 121, 111, 117, 114, 32, 116, 97, 115, 107, 115, 32, 105, 110, 116, 111, 32, 115, 109, 97, 108, 108, 101, 114, 44, 32, 109, 97, 110, 97, 103, 101, 97, 98, 108, 101, 32, 112, 105, 101, 99, 101, 115, 46>>,
        \* "I can sense you're feeling stressed. Try progressive muscle relaxation or listen to calming music. 🎵 Remember to be kind to yourself."
        <<73, 32, 99, 97, 110, 32, 115, 101, 110, 115, 101, 32, 121, 111, 117, 39, 114, 101, 32, 102, 101, 101, 108, 105, 110, 103, 32, 115, 116, 114, 101, 115, 115, 101, 100, 46, 32, 84, 114, 121, 32, 112, 114, 111, 103, 114, 101, 115, 115, 105, 118, 101, 32, 109, 117, 115, 99, 108, 101, 32, 114, 101, 108, 97, 120, 97, 116, 105, 111, 110, 32, 111, 114, 32, 108, 105, 115, 116, 101, 110, 32, 116, 111, 32, 99, 97, 108, 109, 105, 110, 103, 32, 109, 117, 115, 105, 99, 46, 32, 55356, 57269, 32, 82, 101, 109, 101, 109, 98, 101, 114, 32, 116, 111, 32, 98, 101, 32, 107, 105, 110, 100, 32, 116, 111, 32, 121, 111, 117, 114, 115, 101, 108, 102, 46>> >>,
      hindi |-> <<
        \* "तनाव आपके शरीर का चुनौतियों का जवाब देने का तरीका है। एक पल रुकें और गहरी सांस लें। 🌸 अपने कार्यों को छोटे, प्रबंधनीय टुकड़ों में बांटने पर विचार करें।"
        <<2340, 2344, 2366, 2357, 32, 2310, 2346, 2325, 2375, 32, 2358, 2352, 2368, 2352, 32, 2325, 2366, 32, 2330, 2369, 2344, 2380, 2340, 2367, 2351, 2379, 2306, 32, 2325, 2366, 32, 2332, 2357, 2366, 2348, 32, 2342, 2375, 2344, 2375, 32, 2325, 2366, 32, 2340, 2352, 2368, 2325, 2366, 32, 2361, 2376, 2404, 32, 2319, 2325, 32, 2346, 2354, 32, 2352, 2369, 2325, 2375, 2306, 32, 2324, 2352, 32, 2327, 2361, 2352, 2368, 32, 2360, 2366, 2306, 2360, 32, 2354, 2375, 2306, 2404, 32, 55356, 57144, 32, 2309, 2346, 2344, 2375, 32, 2325, 2366, 2352, 2381, 2351, 2379, 2306, 32, 2325, 2379, 32, 2331, 2379, 2335, 2375, 44, 32, 2346, 2381, 2352, 2348, 2306, 2343, 2344, 2368, 2351, 32, 2335, 2369, 2325, 2337, 2364, 2379, 2306, 32, 2350, 2375, 2306, 32, 2348, 2366, 2306, 2335, 2344, 2375, 32, 2346, 2352, 32, 2357, 2367, 2330, 2366, 2352, 32, 2325, 2352, 2375, 2306, 2404>> >>,
      marathi |-> <<
        \* "तणाव हा तुमच्या शरीराचा आव्हानांना प्रतिसाद देण्याचा मार्ग आहे। एक क्षण थांबा आणि खोल श्वास घ्या। 🌸 तुमची कामे लहान, व्यवस्थापन करण्यायोग्य भागांमध्ये विभागण्याचा विचार करा।"
        <<2340, 2339, 2366, 2357, 32, 2361, 2366, 32, 2340, 2369, 2350, 2330, 2381, 2351, 2366, 32, 2358, 2352, 2368, 2352, 2366, 2330, 2366, 32, 2310, 2357, 2381, 2361, 2366, 2344, 2366, 2306, 2344, 2366, 32, 2346, 2381, 2352, 2340, 2367, 2360, 2366, 2342, 32, 2342, 2375, 2339, 2381, 2351, 2366, 2330, 2366, 32, 2350, 2366, 2352, 2381, 2327, 32, 2310, 2361, 2375, 2404, 32, 2319, 2325, 32, 2325, 2381, 2359, 2339, 32, 2341, 2366, 2306, 2348, 2366, 32, 2310, 2339, 2367, 32, 2326, 2379, 2354, 32, 2358, 2381, 2357, 2366, 2360, 32, 2328, 2381, 2351, 2366, 2404, 32, 55356, 57144, 32, 2340, 2369, 2350, 2330, 2368, 32, 2325, 2366, 2350, 2375, 32, 2354, 2361, 2366, 2344, 44, 32, 2357, 2381, 2351, 2357, 2360, 2381, 2341, 2366, 2346, 2344, 32, 2325, 2352, 2339, 2381, 2351, 2366, 2351, 2379, 2327, 2381, 2351, 32, 2349, 2366, 2327, 2366, 2306, 2350, 2343, 2381, 2351, 2375, 32, 2357, 2367, 2349, 2366, 2327, 2339, 2381, 2351, 2366, 2330, 2366, 32, 2357, 2367, 2330, 2366, 2352, 32, 2325, 2352, 2366, 2404>> >>,
      kannada |-> <<
        \* "ಒತ್ತಡವು ಸವಾಲುಗಳಿಗೆ ಪ್ರತಿಕ್ರಿಯಿಸುವ ನಿಮ್ಮ ದೇಹದ ವಿಧಾನವಾಗಿದೆ। ಒಂದು ಕ್ಷಣ ವಿರಾಮ ತೆಗೆದುಕೊಂಡು ಆಳವಾಗಿ ಉಸಿರಾಡಿ। 🌸 ನಿಮ್ಮ ಕಾರ್ಯಗಳನ್ನು ಸಣ್ಣ, ನಿರ್ವಹಿಸಬಹುದಾದ ಭಾಗಗಳಾಗಿ ವಿಭಜಿಸುವುದನ್ನು ಪರಿಗಣಿಸಿ।"
        <<3218, 3236, 3277, 3236, 3233, 3253, 3265, 32, 3256, 3253, 3262, 3250, 3265, 3223, 3251, 3263, 3223, 3270, 32, 3242, 3277, 3248, 3236, 3263, 3221, 3277, 3248, 3263, 3247, 3263, 3256, 3265, 3253, 32, 3240, 3263, 3246, 3277, 3246, 32, 3238, 3271, 3257, 3238, 32, 3253, 3263, 3239, 3262, 3240, 3253, 3262, 3223, 3263, 3238, 3270, 2404, 32, 3218, 3202, 3238, 3265, 32, 3221, 3277, 3255, 3235, 32, 3253, 3263, 3248, 3262, 3246, 32, 3236, 3270, 3223, 3270, 3238, 3265, 3221, 3274, 3202, 3233, 3265, 32, 3206, 3251, 3253, 3262, 3223, 3263, 32, 3209, 3256, 3263, 3248, 3262, 3233, 3263, 2404, 32, 55356, 57144, 32, 3240, 3263, 3246, 3277, 3246, 32, 3221, 3262, 3248, 3277, 3247, 3223, 3251, 3240, 3277, 3240, 3265, 32, 3256, 3235, 3277, 3235, 44, 32, 3240, 3263, 3248, 3277, 3253, 3257, 3263, 3256, 3244, 3257, 3265, 3238, 3262, 3238, 32, 3245, 3262, 3223, 3223, 3251, 3262, 3223, 3263, 32, 3253, 3263, 3245, 3228, 3263, 3256, 3265, 3253, 3265, 3238, 3240, 3277, 3240, 3265, 32, 3242, 3248, 3263, 3223, 3235, 3263, 3256, 3263, 2404>> >>]]

\* The table local to the final branch of generateBotResponse.
genericResponses ==
  [english |-> <<
     \* "I hear you. Can you tell me more about what you're experiencing? 🤗"
     <<73, 32, 104, 101, 97, 114, 32, 121, 111, 117, 46, 32, 67, 97, 110, 32, 121, 111, 117, 32, 116, 101, 108, 108, 32, 109, 101, 32, 109, 111, 114, 101, 32, 97, 98, 111, 117, 116, 32, 119, 104, 97, 116, 32, 121, 111, 117, 39, 114, 101, 32, 101, 120, 112, 101, 114, 105, 101, 110, 99, 105, 110, 103, 63, 32, 55358, 56599>>,
     \* "Thank you for sharing that with me. How long have you been feeling this way? 💙"
     <<84, 104, 97, 110, 107, 32, 121, 111, 117, 32, 102, 111, 114, 32, 115, 104, 97, 114, 105, 110, 103, 32, 116, 104, 97, 116, 32, 119, 105, 116, 104, 32, 109, 101, 46, 32, 72, 111, 119, 32, 108, 111, 110, 103, 32, 104, 97, 118, 101, 32, 121, 111, 117, 32, 98, 101, 101, 110, 32, 102, 101, 101, 108, 105, 110, 103, 32, 116, 104, 105, 115, 32, 119, 97, 121, 63, 32, 55357, 56473>>,
     \* "That sounds challenging. What do you think might help you feel better? 🌟"
     <<84, 104, 97, 116, 32, 115, 111, 117, 110, 100, 115, 32, 99, 104, 97, 108, 108, 101, 110, 103, 105, 110, 103, 46, 32, 87, 104, 97, 116, 32, 100, 111, 32, 121, 111, 117, 32, 116, 104, 105, 110, 107, 32, 109, 105, 103, 104, 116, 32, 104, 101, 108, 112, 32, 121, 111, 117, 32, 102, 101, 101, 108, 32, 98, 101, 116, 116, 101, 114, 63, 32, 55356, 57119>> >>,
   hindi |-> <<
     \* "मैं आपकी बात सुन रहा हूँ। क्या आप मुझे बता सकते हैं कि आप क्या अनुभव कर रहे हैं? 🤗"
     <<2350, 2376, 2306, 32, 2310, 2346, 2325, 2368, 32, 2348, 2366, 2340, 32, 2360, 2369, 2344, 32, 2352, 2361, 2366, 32, 2361, 2370, 2305, 2404, 32, 2325, 2381, 2351, 2366, 32, 2310, 2346, 32, 2350, 2369, 2333, 2375, 32, 2348, 2340, 2366, 32, 2360, 2325, 2340, 2375, 32, 2361, 2376, 2306, 32, 2325, 2367, 32, 2310, 2346, 32, 2325, 2381, 2351, 2366, 32, 2309, 2344, 2369, 2349, 2357, 32, 2325, 2352, 32, 2352, 2361, 2375, 32, 2361, 2376, 2306, 63, 32, 55358, 56599>>,
     \* "मेरे साथ साझा करने के लिए धन्यवाद। आप कितने समय से ऐसा महसूस कर रहे हैं? 💙"
     <<2350, 2375, 2352, 2375, 32, 2360, 2366, 2341, 32, 2360, 2366, 2333, 2366, 32, 2325, 2352, 2344, 2375, 32, 2325, 2375, 32, 2354, 2367, 2319, 32, 2343, 2344, 2381, 2351, 2357, 2366, 2342, 2404, 32, 2310, 2346, 32, 2325, 2367, 2340, 2344, 2375, 32, 2360, 2350, 2351, 32, 2360, 2375, 32, 2320, 2360, 2366, 32, 2350, 2361, 2360, 2370, 2360, 32, 2325, 2352, 32, 2352, 2361, 2375, 32, 2361, 2376, 2306, 63, 32, 55357, 56473>> >>,
   marathi |-> <<
     \* "मी तुमचे ऐकत आहे। तुम्ही मला सांगू शकता का की तुम्ही काय अनुभवत आहात? 🤗"
     <<2350, 2368, 32, 2340, 2369, 2350, 2330, 2375, 32, 2320, 2325, 2340, 32, 2310, 2361, 2375, 2404, 32, 2340, 2369, 2350, 2381, 2361, 2368, 32, 2350, 2354, 2366, 32, 2360, 2366, 2306, 2327, 2370, 32, 2358, 2325, 2340, 2366, 32, 2325, 2366, 32, 2325, 2368, 32, 2340, 2369, 2350, 2381, 2361, 2368, 32, 2325, 2366, 2351, 32, 2309, 2344, 2369, 2349, 2357, 2340, 32, 2310, 2361, 2366, 2340, 63, 32, 55358, 56599>>,
     \* "माझ्याशी सामायिक केल्याबद्दल धन्यवाद। तुम्ही किती काळापासून असे वाटत आहे? 💙"
     <<2350, 2366, 2333, 2381, 2351, 2366, 2358, 2368, 32, 2360, 2366, 2350, 2366, 2351, 2367, 2325, 32, 2325, 2375, 2354, 2381, 2351, 2366, 2348, 2342, 2381, 2342, 2354, 32, 2343, 2344, 2381, 2351, 2357, 2366, 2342, 2404, 32, 2340, 2369, 2350, 2381, 2361, 2368, 32, 2325, 2367, 2340, 2368, 32, 2325, 2366, 2355, 2366, 2346, 2366, 2360, 2370, 2344, 32, 2309, 2360, 2375, 32, 2357, 2366, 2335, 2340, 32, 2310, 2361, 2375, 63, 32, 55357, 56473>> >>,
   kannada |-> <<
     \* "ನಾನು ನಿಮ್ಮ ಮಾತು ಕೇಳುತ್ತಿದ್ದೇನೆ. ನೀವು ಏನನ್ನು ಅನುಭವಿಸುತ್ತಿದ್ದೀರಿ ಎಂದು ನನಗೆ ಹೆಚ್ಚು ಹೇಳಬಹುದೇ? 🤗"
     <<3240, 3262, 3240, 3265, 32, 3240, 3263, 3246, 3277, 3246, 32, 3246, 3262, 3236, 3265, 32, 3221, 3271, 3251, 3265, 3236, 3277, 3236, 3263, 3238, 3277, 3238, 3271, 3240, 3270, 46, 32, 3240, 3264, 3253, 3265, 32, 3215, 3240, 3240, 3277, 3240, 3265, 32, 3205, 3240, 3265, 3245, 3253, 3263, 3256, 3265, 3236, 3277, 3236, 3263, 3238, 3277, 3238, 3264, 3248, 3263, 32, 3214, 3202, 3238, 3265, 32, 3240, 3240, 3223, 3270, 32, 3257, 3270, 3226, 3277, 3226, 3265, 32, 3257, 3271, 3251, 3244, 3257, 3265, 3238, 3271, 63, 32, 55358, 56599>>,
     \* "ನನ್ನೊಂದಿಗೆ ಹಂಚಿಕೊಂಡಿದ್ದಕ್ಕಾಗಿ ಧನ್ಯವಾದಗಳು. ನೀವು ಎಷ್ಟು ಕಾಲದಿಂದ ಹೀಗೆ ಅನಿಸುತ್ತಿದೆ? 💙"
     <<3240, 3240, 3277, 3240, 3274, 3202, 3238, 3263, 3223, 3270, 32, 3257, 3202, 3226, 3263, 3221, 3274, 3202, 3233, 3263, 3238, 3277, 3238, 3221, 3277, 3221, 3262, 3223, 3263, 32, 3239, 3240, 3277, 3247, 3253, 3262, 3238, 3223, 3251, 3265, 46, 32, 3240, 3264, 3253, 3265, 32, 3214, 3255, 3277, 3231, 3265, 32, 3221, 3262, 3250, 3238, 3263, 3202, 3238, 32, 3257, 3264, 3223, 3270, 32, 3205, 3240, 3263, 3256, 3265, 3236, 3277, 3236, 3263, 3238, 3270, 63, 32, 55357, 56473>> >>]

\* The texts of the 'happy' branch of generateMoodResponse, in the order of
\* its conditional chain: english, hindi, marathi, and the final alternative.
happyResponses == <<
  \* "That's wonderful to hear! 🌟 Keep nurturing those positive feelings. What's bringing you joy today?"
  <<84, 104, 97, 116, 39, 115, 32, 119, 111, 110, 100, 101, 114, 102, 117, 108, 32, 116, 111, 32, 104, 101, 97, 114, 33, 32, 55356, 57119, 32, 75, 101, 101, 112, 32, 110, 117, 114, 116, 117, 114, 105, 110, 103, 32, 116, 104, 111, 115, 101, 32, 112, 111, 115, 105, 116, 105, 118, 101, 32, 102, 101, 101, 108, 105, 110, 103, 115, 46, 32, 87, 104, 97, 116, 39, 115, 32, 98, 114, 105, 110, 103, 105, 110, 103, 32, 121, 111, 117, 32, 106, 111, 121, 32, 116, 111, 100, 97, 121, 63>>,
  \* "यह सुनकर बहुत अच्छा लगा! 🌟 इन सकारात्मक भावनाओं को बनाए रखें। आज आपको क्या खुशी दे रहा है?"
  <<2351, 2361, 32, 2360, 2369, 2344, 2325, 2352, 32, 2348, 2361, 2369, 2340, 32, 2309, 2330, 2381, 2331, 2366, 32, 2354, 2327, 2366, 33, 32, 55356, 57119, 32, 2311, 2344, 32, 2360, 2325, 2366, 2352, 2366, 2340, 2381, 2350, 2325, 32, 2349, 2366, 2357, 2344, 2366, 2323, 2306, 32, 2325, 2379, 32, 2348, 2344, 2366, 2319, 32, 2352, 2326, 2375, 2306, 2404, 32, 2310, 2332, 32, 2310, 2346, 2325, 2379, 32, 2325, 2381, 2351, 2366, 32, 2326, 2369, 2358, 2368, 32, 2342, 2375, 32, 2352, 2361, 2366, 32, 2361, 2376, 63>>,
  \* "हे ऐकून खूप आनंद झाला! 🌟 या सकारात्मक भावनांना वाढवत रहा। आज तुम्हाला काय आनंद देत आहे?"
  <<2361, 2375, 32, 2320, 2325, 2370, 2344, 32, 2326, 2370, 2346, 32, 2310, 2344, 2306, 2342, 32, 2333, 2366, 2354, 2366, 33, 32, 55356, 57119, 32, 2351, 2366, 32, 2360, 2325, 2366, 2352, 2366, 2340, 2381, 2350, 2325, 32, 2349, 2366, 2357, 2344, 2366, 2306, 2344, 2366, 32, 2357, 2366, 2338, 2357, 2340, 32, 2352, 2361, 2366, 2404, 32, 2310, 2332, 32, 2340, 2369, 2350, 2381, 2361, 2366, 2354, 2366, 32, 2325, 2366, 2351, 32, 2310, 2344, 2306, 2342, 32, 2342, 2375, 2340, 32, 2310, 2361, 2375, 63>>,
  \* "ಇದನ್ನು ಕೇಳಿ ತುಂಬಾ ಸಂತೋಷವಾಯಿತು! 🌟 ಈ ಧನಾತ್ಮಕ ಭಾವನೆಗಳನ್ನು ಪೋಷಿಸುತ್ತಲೇ ಇರಿ। ಇಂದು ನಿಮಗೆ ಸಂತೋಷ ತರುತ್ತಿರುವುದು ಏನು?"
  <<3207, 3238, 3240, 3277, 3240, 3265, 32, 3221, 3271, 3251, 3263, 32, 3236, 3265, 3202, 3244, 3262, 32, 3256, 3202, 3236, 3275, 3255, 3253, 3262, 3247, 3263, 3236, 3265, 33, 32, 55356, 57119, 32, 3208, 32, 3239, 3240, 3262, 3236, 3277, 3246, 3221, 32, 3245, 3262, 3253, 3240, 3270, 3223, 3251, 3240, 3277, 3240, 3265, 32, 3242, 3275, 3255, 3263, 3256, 3265, 3236, 3277, 3236, 3250, 3271, 32, 3207, 3248, 3263, 2404, 32, 3207, 3202, 3238, 3265, 32, 3240, 3263, 3246, 3223, 3270, 32, 3256, 3202, 3236, 3275, 3255, 32, 3236, 3248, 3265, 3236, 3277, 3236, 3263, 3248, 3265, 3253, 3265, 3238, 3265, 32, 3215, 3240, 3265, 63>> >>

\* The texts of the 'calm' branch of generateMoodResponse.
calmResponses == <<
  \* "It's great that you're feeling calm! 🧘‍♀️ This is a perfect state for reflection and mindfulness. How can I support you today?"
  <<73, 116, 39, 115, 32, 103, 114, 101, 97, 116, 32, 116, 104, 97, 116, 32, 121, 111, 117, 39, 114, 101, 32, 102, 101, 101, 108, 105, 110, 103, 32, 99, 97, 108, 109, 33, 32, 55358, 56792, 8205, 9792, 65039, 32, 84, 104, 105, 115, 32, 105, 115, 32, 97, 32, 112, 101, 114, 102, 101, 99, 116, 32, 115, 116, 97, 116, 101, 32, 102, 111, 114, 32, 114, 101, 102, 108, 101, 99, 116, 105, 111, 110, 32, 97, 110, 100, 32, 109, 105, 110, 100, 102, 117, 108, 110, 101, 115, 115, 46, 32, 72, 111, 119, 32, 99, 97, 110, 32, 73, 32, 115, 117, 112, 112, 111, 114, 116, 32, 121, 111, 117, 32, 116, 111, 100, 97, 121, 63>>,
  \* "यह बहुत अच्छा है कि आप शांत महसूस कर रहे हैं! 🧘‍♀️ यह चिंतन और सचेतता के लिए एक आदर्श स्थिति है। आज मैं आपकी कैसे सहायता कर सकता हूँ?"
  <<2351, 2361, 32, 2348, 2361, 2369, 2340, 32, 2309, 2330, 2381, 2331, 2366, 32, 2361, 2376, 32, 2325, 2367, 32, 2310, 2346, 32, 2358, 2366, 2306, 2340, 32, 2350, 2361, 2360, 2370, 2360, 32, 2325, 2352, 32, 2352, 2361, 2375, 32, 2361, 2376, 2306, 33, 32, 55358, 56792, 8205, 9792, 65039, 32, 2351, 2361, 32, 2330, 2367, 2306, 2340, 2344, 32, 2324, 2352, 32, 2360, 2330, 2375, 2340, 2340, 2366, 32, 2325, 2375, 32, 2354, 2367, 2319, 32, 2319, 2325, 32, 2310, 2342, 2352, 2381, 2358, 32, 2360, 2381, 2341, 2367, 2340, 2367, 32, 2361, 2376, 2404, 32, 2310, 2332, 32, 2350, 2376, 2306, 32, 2310, 2346, 2325, 2368, 32, 2325, 2376, 2360, 2375, 32, 2360, 2361, 2366, 2351, 2340, 2366, 32, 2325, 2352, 32, 2360, 2325, 2340, 2366, 32, 2361, 2370, 2305, 63>>,
  \* "तुम्ही शांत वाटत आहात हे खूप चांगले आहे! 🧘‍♀️ ही चिंतन आणि जागरूकतेसाठी एक आदर्श स्थिती आहे। आज मी तुमची कशी मदत करू शकतो?"
  <<2340, 2369, 2350, 2381, 2361, 2368, 32, 2358, 2366, 2306, 2340, 32, 2357, 2366, 2335, 2340, 32, 2310, 2361, 2366, 2340, 32, 2361, 2375, 32, 2326, 2370, 2346, 32, 2330, 2366, 2306, 2327, 2354, 2375, 32, 2310, 2361, 2375, 33, 32, 55358, 56792, 8205, 9792, 65039, 32, 2361, 2368, 32, 2330, 2367, 2306, 2340, 2344, 32, 2310, 2339, 2367, 32, 2332, 2366, 2327, 2352, 2370, 2325, 2340, 2375, 2360, 2366, 2336, 2368, 32, 2319, 2325, 32, 2310, 2342, 2352, 2381, 2358, 32, 2360, 2381, 2341, 2367, 2340, 2368, 32, 2310, 2361, 2375, 2404, 32, 2310, 2332, 32, 2350, 2368, 32, 2340, 2369, 2350, 2330, 2368, 32, 2325, 2358, 2368, 32, 2350, 2342, 2340, 32, 2325, 2352, 2370, 32, 2358, 2325, 2340, 2379, 63>>,
  \* "ನೀವು ಶಾಂತವಾಗಿ ಅನಿಸುತ್ತಿರುವುದು ಬಹಳ ಒಳ್ಳೆಯದು! 🧘‍♀️ ಇದು ಚಿಂತನೆ ಮತ್ತು ಸಾವಧಾನತೆಗೆ ಪರಿಪೂರ್ಣ ಸ್ಥಿತಿ. ಇಂದು ನಾನು ನಿಮ್ಮನ್ನು ಹೇಗೆ ಬೆಂಬಲಿಸಬಹುದು?"
  <<3240, 3264, 3253, 3265, 32, 3254, 3262, 3202, 3236, 3253, 3262, 3223, 3263, 32, 3205, 3240, 3263, 3256, 3265, 3236, 3277, 3236, 3263, 3248, 3265, 3253, 3265, 3238, 3265, 32, 3244, 3257, 3251, 32, 3218, 3251, 3277, 3251, 3270, 3247, 3238, 3265, 33, 32, 55358, 56792, 8205, 9792, 65039, 32, 3207, 3238, 3265, 32, 3226, 3263, 3202, 3236, 3240, 3270, 32, 3246, 3236, 3277, 3236, 3265, 32, 3256, 3262, 3253, 3239, 3262, 3240, 3236, 3270, 3223, 3270, 32, 3242, 3248, 3263, 3242, 3266, 3248, 3277, 3235, 32, 3256, 3277, 3237, 3263, 3236, 3263, 46, 32, 3207, 3202, 3238, 3265, 32, 3240, 3262, 3240, 3265, 32, 3240, 3263, 3246, 3277, 3246, 3240, 3277, 3240, 3265, 32, 3257, 3271, 3223, 3270, 32, 3244, 3270, 3202, 3244, 3250, 3263, 3256, 3244, 3257, 3265, 3238, 3265, 63>> >>

\* The texts of the final (else) branch of generateMoodResponse.
otherResponses == <<
  \* "Thank you for sharing how you're feeling. I'm here to listen and support you. 💙 What would you like to talk about?"
  <<84, 104, 97, 110, 107, 32, 121, 111, 117, 32, 102, 111, 114, 32, 115, 104, 97, 114, 105, 110, 103, 32, 104, 111, 119, 32, 121, 111, 117, 39, 114, 101, 32, 102, 101, 101, 108, 105, 110, 103, 46, 32, 73, 39, 109, 32, 104, 101, 114, 101, 32, 116, 111, 32, 108, 105, 115, 116, 101, 110, 32, 97, 110, 100, 32, 115, 117, 112, 112, 111, 114, 116, 32, 121, 111, 117, 46, 32, 55357, 56473, 32, 87, 104, 97, 116, 32, 119, 111, 117, 108, 100, 32, 121, 111, 117, 32, 108, 105, 107, 101, 32, 116, 111, 32, 116, 97, 108, 107, 32, 97, 98, 111, 117, 116, 63>>,
  \* "आपने अपनी भावनाएं साझा करने के लिए धन्यवाद। मैं सुनने और आपका समर्थन करने के लिए यहाँ हूँ। 💙 आप किस बारे में बात करना चाहेंगे?"
  <<2310, 2346, 2344, 2375, 32, 2309, 2346, 2344, 2368, 32, 2349, 2366, 2357, 2344, 2366, 2319, 2306, 32, 2360, 2366, 2333, 2366, 32, 2325, 2352, 2344, 2375, 32, 2325, 2375, 32, 2354, 2367, 2319, 32, 2343, 2344, 2381, 2351, 2357, 2366, 2342, 2404, 32, 2350, 2376, 2306, 32, 2360, 2369, 2344, 2344, 2375, 32, 2324, 2352, 32, 2310, 2346, 2325, 2366, 32, 2360, 2350, 2352, 2381, 2341, 2344, 32, 2325, 2352, 2344, 2375, 32, 2325, 2375, 32, 2354, 2367, 2319, 32, 2351, 2361, 2366, 2305, 32, 2361, 2370, 2305, 2404, 32, 55357, 56473, 32, 2310, 2346, 32, 2325, 2367, 2360, 32, 2348, 2366, 2352, 2375, 32, 2350, 2375, 2306, 32, 2348, 2366, 2340, 32, 2325, 2352, 2344, 2366, 32, 2330, 2366, 2361, 2375, 2306, 2327, 2375, 63>>,
  \* "तुमच्या भावना सामायिक केल्याबद्दल धन्यवाद। मी ऐकण्यासाठी आणि तुमचे समर्थन करण्यासाठी येथे आहे। 💙 तुम्हाला कशाबद्दल बोलायचे आहे?"
  <<2340, 2369, 2350, 2330, 2381, 2351, 2366, 32, 2349, 2366, 2357, 2344, 2366, 32, 2360, 2366, 2350, 2366, 2351, 2367, 2325, 32, 2325, 2375, 2354, 2381, 2351, 2366, 2348, 2342, 2381, 2342, 2354, 32, 2343, 2344, 2381, 2351, 2357, 2366, 2342, 2404, 32, 2350, 2368, 32, 2320, 2325, 2339, 2381, 2351, 2366, 2360, 2366, 2336, 2368, 32, 2310, 2339, 2367, 32, 2340, 2369, 2350, 2330, 2375, 32, 2360, 2350, 2352, 2381, 2341, 2344, 32, 2325, 2352, 2339, 2381, 2351, 2366, 2360, 2366, 2336, 2368, 32, 2351, 2375, 2341, 2375, 32, 2310, 2361, 2375, 2404, 32, 55357, 56473, 32, 2340, 2369, 2350, 2381, 2361, 2366, 2354, 2366, 32, 2325, 2358, 2366, 2348, 2342, 2381, 2342, 2354, 32, 2348, 2379, 2354, 2366, 2351, 2330, 2375, 32, 2310, 2361, 2375, 63>>,
  \* "ನಿಮ್ಮ ಭಾವನೆಗಳನ್ನು ಹಂಚಿಕೊಂಡಿದ್ದಕ್ಕಾಗಿ ಧನ್ಯವಾದಗಳು. ನಾನು ಕೇಳಲು ಮತ್ತು ನಿಮ್ಮನ್ನು ಬೆಂಬಲಿಸಲು ಇಲ್ಲಿದ್ದೇನೆ। 💙 ನೀವು ಯಾವುದರ ಬಗ್ಗೆ ಮಾತನಾಡಲು ಬಯಸುತ್ತೀರಿ?"
  <<3240, 3263, 3246, 3277, 3246, 32, 3245, 3262, 3253, 3240, 3270, 3223, 3251, 3240, 3277, 3240, 3265, 32, 3257, 3202, 3226, 3263, 3221, 3274, 3202, 3233, 3263, 3238, 3277, 3238, 3221, 3277, 3221, 3262, 3223, 3263, 32, 3239, 3240, 3277, 3247, 3253, 3262, 3238, 3223, 3251, 3265, 46, 32, 3240, 3262, 3240, 3265, 32, 3221, 3271, 3251, 3250, 3265, 32, 3246, 3236, 3277, 3236, 3265, 32, 3240, 3263, 3246, 3277, 3246, 3240, 3277, 3240, 3265, 32, 3244, 3270, 3202, 3244, 3250, 3263, 3256, 3250, 3265, 32, 3207, 3250, 3277, 3250, 3263, 3238, 3277, 3238, 3271, 3240, 3270, 2404, 32, 55357, 56473, 32, 3240, 3264, 3253, 3265, 32, 3247, 3262, 3253, 3265, 3238, 3248, 32, 3244, 3223, 3277, 3223, 3270, 32, 3246, 3262, 3236, 3240, 3262, 3233, 3250, 3265, 32, 3244, 3247, 3256, 3265, 3236, 3277, 3236, 3264, 3248, 3263, 63>> >>

emojiMap ==
  \* "😊"
  [happy |-> <<55357, 56842>>,
   \* "😢"
   sad |-> <<55357, 56866>>,
   \* "😰"
   anxious |-> <<55357, 56880>>,
   \* "😠"
   angry |-> <<55357, 56864>>,
   \* "😌"
   calm |-> <<55357, 56844>>,
   \* "😕"
   confused |-> <<55357, 56853>>]

\* The glyph getMoodEmoji falls back to.
defaultEmoji ==
  \* "😐"
  <<55357, 56848>>

\* The keywords tested by the three conditions of generateBotResponse.
depressionKeywords == {
  \* "sad" | "depressed" | "down"
  <<115, 97, 100>>, <<100, 101, 112, 114, 101, 115, 115, 101, 100>>, <<100, 111, 119, 110>>,
  \* "उदास" | "दुखी" | "ದುಃಖ"
  <<2313, 2342, 2366, 2360>>, <<2342, 2369, 2326, 2368>>, <<3238, 3265, 3203, 3222>> }

anxietyKeywords == {
  \* "anxious" | "worried" | "panic"
  <<97, 110, 120, 105, 111, 117, 115>>, <<119, 111, 114, 114, 105, 101, 100>>, <<112, 97, 110, 105, 99>>,
  \* "चिंतित" | "चिंताग्रस्त" | "ಆತಂಕ"
  <<2330, 2367, 2306, 2340, 2367, 2340>>, <<2330, 2367, 2306, 2340, 2366, 2327, 2381, 2352, 2360, 2381, 2340>>, <<3206, 3236, 3202, 3221>> }

stressKeywords == {
  \* "stress" | "overwhelmed" | "pressure"
  <<115, 116, 114, 101, 115, 115>>, <<111, 118, 101, 114, 119, 104, 101, 108, 109, 101, 100>>, <<112, 114, 101, 115, 115, 117, 114, 101>>,
  \* "तनाव" | "तणाव" | "ಒತ್ತಡ"
  <<2340, 2344, 2366, 2357>>, <<2340, 2339, 2366, 2357>>, <<3218, 3236, 3277, 3236, 3233>> }

(* --------------------------- string built-ins ------------------------- *)

\* The code units String.prototype.trim strips: WhiteSpace and
\* LineTerminator of the language definition.
WhiteSpace ==
  {9, 10, 11, 12, 13, 32, 160, 5760, 8232, 8233, 8239, 8287, 12288, 65279}
    \cup (8192..8202)

\* trim stripping nothing: the guard of handleSendMessage would compare the
\* raw text with ''.
trim_Nothing(s) == s

\* String.prototype.trim
trim(s) ==
  LET keep == {i \in 1..Len(s) : s[i] \notin WhiteSpace}
  IN  IF keep = {} THEN <<>>
      ELSE LET first == CHOOSE i \in keep : \A j \in keep : i <= j
               last == CHOOSE i \in keep : \A j \in keep : j <= i
           IN  SubSeq(s, first, last)

\* The lower case of one code unit: the letters A-Z and the capital letters
\* of Latin-1 have one; Devanagari, Kannada and the emoji have no case.
lowerUnit(c) ==
  IF c \in 65..90 \/ (c \in 192..222 /\ c # 215) THEN c + 32 ELSE c

\* String.prototype.toLowerCase
toLowerCase(s) == [i \in 1..Len(s) |-> lowerUnit(s[i])]

\* String.prototype.includes
includes(s, k) ==
  \E i \in 0..(Len(s) - Len(k)) : SubSeq(s, i + 1, i + Len(k)) = k

(* ------------------------------- inputs -------------------------------- *)

\* The texts the user types into the message input (Spec).
InputTexts == {
  \* "   "
  <<32, 32, 32>>,
  \* "hello"
  <<104, 101, 108, 108, 111>>,
  \* " I feel SAD and anxious "
  <<32, 73, 32, 102, 101, 101, 108, 32, 83, 65, 68, 32, 97, 110, 100, 32, 97, 110, 120, 105, 111, 117, 115, 32>> }

\* The words the user composes a message of (SpecClassify): keywords of the
\* three groups in several cases and scripts, and words that are no keyword
\* (one of them typed with a space on each side).
Words == {
  \* "sad" | "Sad" | "DOWN"
  <<115, 97, 100>>, <<83, 97, 100>>, <<68, 79, 87, 78>>,
  \* "anxious" | "Panic" | "WORRIED"
  <<97, 110, 120, 105, 111, 117, 115>>, <<80, 97, 110, 105, 99>>, <<87, 79, 82, 82, 73, 69, 68>>,
  \* "stress" | "Overwhelmed"
  <<115, 116, 114, 101, 115, 115>>, <<79, 118, 101, 114, 119, 104, 101, 108, 109, 101, 100>>,
  \* "hello" | " OK "
  <<104, 101, 108, 108, 111>>, <<32, 79, 75, 32>>,
  \* "उदास" | "चिंताग्रस्त" | "ಒತ್ತಡ"
  <<2313, 2342, 2366, 2360>>, <<2330, 2367, 2306, 2340, 2366, 2327, 2381, 2352, 2360, 2381, 2340>>, <<3218, 3236, 3277, 3236, 3233>> }

RECURSIVE Compose(_)
\* The messages of at most n words, joined by single spaces.
Compose(n) ==
  IF n = 0 THEN {<<>>}
  ELSE LET shorter == Compose(n - 1)
       IN  shorter \cup
           {IF t = <<>> THEN w ELSE t \o <<32>> \o w : t \in shorter, w \in Words}

\* The moods handleMoodSelection is given when its caller is not held to the
\* mood buttons: the closed set and one mood outside it (SpecOpen).
MoodInputs == Moods \cup {"tired"}

\* The languages setCurrentLanguage is given when its caller is not held to
\* the options of the selector: the closed set and one outside it (SpecOpen).
LanguageInputs == Languages \cup {"french"}

\* The keys handleKeyPress is given.
Keys == {"Enter", "a"}

(* -------------------------------- state -------------------------------- *)

VARIABLES
  messages,          \* useState([]): the transcript
  inputValue,        \* useState(''): the content of the message input
  currentLanguage,   \* useState('english')
  userMood,          \* useState(null)
  showMoodSelector,  \* useState(false)
  mounted,           \* whether the mount effect has run
  error,             \* the error the last handler, or the render after it, threw
  lastOp             \* the handler that ran last (history)

vars ==
  <<messages, inputValue, currentLanguage, userMood, showMoodSelector, mounted,
    error, lastOp>>

\* No error thrown.
NoError == "none"

\* The language useState gives currentLanguage at construction.
InitialLanguage == "english"

Init ==
  /\ messages = <<>>
  /\ inputValue = <<>>
  /\ currentLanguage = InitialLanguage
  /\ userMood = null
  /\ showMoodSelector = FALSE
  /\ mounted = FALSE
  /\ error = NoError
  /\ lastOp = "none"

(* ---------------------------- pure functions --------------------------- *)

\* What the render throws: translations[currentLanguage].title is a property
\* read of undefined, a TypeError, for a language translations has no entry
\* of; the component is then unmounted.
render(lang) ==
  IF lang \in DOMAIN translations THEN NoError ELSE "TypeError"

\* ${translations[lang].moodLabels[mood]}: a mood moodLabels has no entry of
\* reads undefined, which the template literal writes as "undefined".
moodLabel(lang, mood) ==
  IF mood \in DOMAIN translations[lang].moodLabels
    THEN translations[lang].moodLabels[mood]
    \* "undefined"
    ELSE <<117, 110, 100, 101, 102, 105, 110, 101, 100>>

getMoodEmoji(mood) ==
  IF mood \in DOMAIN emojiMap THEN emojiMap[mood] ELSE defaultEmoji

\* The conditional chain  lang === 'english' ? _ : lang === 'hindi' ? _ :
\* lang === 'marathi' ? _ : _  of generateMoodResponse.
languageChain(texts, lang) ==
  IF lang = "english" THEN texts[1]
  ELSE IF lang = "hindi" THEN texts[2]
  ELSE IF lang = "marathi" THEN texts[3]
  ELSE texts[4]

\* generateMoodResponse taking the last variant of a list, not the first.
generateMoodResponse_LastVariant(mood, lang) ==
  LET last(list) == list[Len(list)]
      responseText ==
        IF mood = "sad" THEN last(mentalHealthResponses.depression[lang])
        ELSE IF mood = "anxious" THEN last(mentalHealthResponses.anxiety[lang])
        ELSE IF mood = "angry" THEN last(mentalHealthResponses.stress[lang])
        ELSE IF mood = "happy" THEN languageChain(happyResponses, lang)
        ELSE IF mood = "calm" THEN languageChain(calmResponses, lang)
        ELSE languageChain(otherResponses, lang)
  IN  [text |-> responseText, sender |-> "bot"]

generateMoodResponse(mood, lang) ==
  LET responseText ==
        IF mood = "sad" THEN mentalHealthResponses.depression[lang][1]
        ELSE IF mood = "anxious" THEN mentalHealthResponses.anxiety[lang][1]
        ELSE IF mood = "angry" THEN mentalHealthResponses.stress[lang][1]
        ELSE IF mood = "happy" THEN languageChain(happyResponses, lang)
        ELSE IF mood = "calm" THEN languageChain(calmResponses, lang)
        ELSE languageChain(otherResponses, lang)
  IN  [text |-> responseText, sender |-> "bot"]

\* The indices Math.floor(Math.random() * list.length) can give (from 1).
randomIndex(list) == 1..Len(list)

\* responseList testing the anxiety keywords before the depression keywords.
responseList_AnxietyFirst(userMessage, lang) ==
  LET lowerMessage == toLowerCase(userMessage)
  IN  IF \E k \in anxietyKeywords : includes(lowerMessage, k)
        THEN mentalHealthResponses.anxiety[lang]
      ELSE IF \E k \in depressionKeywords : includes(lowerMessage, k)
        THEN mentalHealthResponses.depression[lang]
      ELSE IF \E k \in stressKeywords : includes(lowerMessage, k)
        THEN mentalHealthResponses.stress[lang]
      ELSE genericResponses[lang]

\* The list generateBotResponse draws its reply from.
responseList(userMessage, lang) ==
  LET lowerMessage == toLowerCase(userMessage)
  IN  IF \E k \in depressionKeywords : includes(lowerMessage, k)
        THEN mentalHealthResponses.depression[lang]
      ELSE IF \E k \in anxietyKeywords : includes(lowerMessage, k)
        THEN mentalHealthResponses.anxiety[lang]
      ELSE IF \E k \in stressKeywords : includes(lowerMessage, k)
        THEN mentalHealthResponses.stress[lang]
      ELSE genericResponses[lang]

\* generateBotResponse reading the English lists whatever the language.
generateBotResponse_English(userMessage, lang) ==
  LET list == responseList(userMessage, "english")
  IN  {[text |-> list[i], sender |-> "bot"] : i \in randomIndex(list)}

\* The messages generateBotResponse can return: one for each random index.
generateBotResponse(userMessage, lang) ==
  LET list == responseList(userMessage, lang)
  IN  {[text |-> list[i], sender |-> "bot"] : i \in randomIndex(list)}

(* ------------------------------- actions ------------------------------- *)

\* The mount effect: the greeting, and the mood selector shown.
Mount ==
  /\ ~mounted
  /\ messages' = <<[text |-> translations[currentLanguage].greeting, sender |-> "bot"]>>
  /\ showMoodSelector' = TRUE
  /\ mounted' = TRUE
  /\ lastOp' = "mount"
  /\ UNCHANGED <<inputValue, currentLanguage, userMood, error>>

\* onChange of the message input.
SetInputValue(value) ==
  /\ mounted /\ error = NoError
  /\ inputValue' = value
  /\ lastOp' = "setInputValue"
  /\ UNCHANGED <<messages, currentLanguage, userMood, showMoodSelector, mounted, error>>

\* SetCurrentLanguage as it would be were the greeting effect to depend on
\* currentLanguage: the transcript restarts with the greeting of the language.
SetCurrentLanguage_Regreets(value) ==
  /\ mounted /\ error = NoError
  /\ currentLanguage' = value
  /\ messages' = <<[text |-> translations[value].greeting, sender |-> "bot"]>>
  /\ showMoodSelector' = TRUE
  /\ error' = render(value)
  /\ lastOp' = "setCurrentLanguage"
  /\ UNCHANGED <<inputValue, userMood, mounted>>

\* onChange of the language selector.
SetCurrentLanguage(value) ==
  /\ mounted /\ error = NoError
  /\ currentLanguage' = value
  /\ error' = render(value)
  /\ lastOp' = "setCurrentLanguage"
  /\ UNCHANGED <<messages, inputValue, userMood, showMoodSelector, mounted>>

\* HandleMoodSelection without setShowMoodSelector(false).
HandleMoodSelection_KeepsSelector(mood) ==
  /\ mounted /\ error = NoError
  /\ showMoodSelector
  /\ Len(messages) + 2 <= 1 + 2 * MaxExchanges
  /\ userMood' = mood
  /\ LET moodMessage ==
           [text |-> moodLabel(currentLanguage, mood)
                       \o <<32>> \o getMoodEmoji(mood),
            sender |-> "user"]
         botResponse == generateMoodResponse(mood, currentLanguage)
     IN  messages' = messages \o <<moodMessage, botResponse>>
  /\ lastOp' = "handleMoodSelection"
  /\ UNCHANGED <<inputValue, currentLanguage, showMoodSelector, mounted, error>>

\* HandleMoodSelection with the mood buttons rendered unconditionally.
HandleMoodSelection_Ungated(mood) ==
  /\ mounted /\ error = NoError
  /\ Len(messages) + 2 <= 1 + 2 * MaxExchanges
  /\ userMood' = mood
  /\ showMoodSelector' = FALSE
  /\ LET moodMessage ==
           [text |-> moodLabel(currentLanguage, mood)
                       \o <<32>> \o getMoodEmoji(mood),
            sender |-> "user"]
         botResponse == generateMoodResponse(mood, currentLanguage)
     IN  messages' = messages \o <<moodMessage, botResponse>>
  /\ lastOp' = "handleMoodSelection"
  /\ UNCHANGED <<inputValue, currentLanguage, mounted, error>>

\* A mood button, rendered only while showMoodSelector.
HandleMoodSelection(mood) ==
  /\ mounted /\ error = NoError
  /\ showMoodSelector
  /\ Len(messages) + 2 <= 1 + 2 * MaxExchanges
  /\ userMood' = mood
  /\ showMoodSelector' = FALSE
  /\ LET moodMessage ==
           [text |-> moodLabel(currentLanguage, mood)
                       \o <<32>> \o getMoodEmoji(mood),
            sender |-> "user"]
         botResponse == generateMoodResponse(mood, currentLanguage)
     IN  messages' = messages \o <<moodMessage, botResponse>>
  /\ lastOp' = "handleMoodSelection"
  /\ UNCHANGED <<inputValue, currentLanguage, mounted, error>>

\* handleSendMessage setting the transcript to the new exchange alone.
handleSendMessage_Replaces ==
  /\ IF trim(inputValue) = <<>>
       THEN UNCHANGED <<messages, inputValue>>
       ELSE /\ Len(messages) + 2 <= 1 + 2 * MaxExchanges
            /\ LET userMessage == [text |-> inputValue, sender |-> "user"]
               IN  \E botResponse \in generateBotResponse(inputValue, currentLanguage) :
                     messages' = <<userMessage, botResponse>>
            /\ inputValue' = <<>>
  /\ lastOp' = "handleSendMessage"
  /\ UNCHANGED <<currentLanguage, userMood, showMoodSelector, mounted, error>>

\* handleSendMessage appending the reply before the user's message.
handleSendMessage_BotFirst ==
  /\ IF trim(inputValue) = <<>>
       THEN UNCHANGED <<messages, inputValue>>
       ELSE /\ Len(messages) + 2 <= 1 + 2 * MaxExchanges
            /\ LET userMessage == [text |-> inputValue, sender |-> "user"]
               IN  \E botResponse \in generateBotResponse(inputValue, currentLanguage) :
                     messages' = messages \o <<botResponse, userMessage>>
            /\ inputValue' = <<>>
  /\ lastOp' = "handleSendMessage"
  /\ UNCHANGED <<currentLanguage, userMood, showMoodSelector, mounted, error>>

\* handleSendMessage also hiding the mood selector.
handleSendMessage_HidesSelector ==
  /\ IF trim(inputValue) = <<>>
       THEN UNCHANGED <<messages, inputValue>>
       ELSE /\ Len(messages) + 2 <= 1 + 2 * MaxExchanges
            /\ LET userMessage == [text |-> inputValue, sender |-> "user"]
               IN  \E botResponse \in generateBotResponse(inputValue, currentLanguage) :
                     messages' = messages \o <<userMessage, botResponse>>
            /\ inputValue' = <<>>
  /\ showMoodSelector' = FALSE
  /\ lastOp' = "handleSendMessage"
  /\ UNCHANGED <<currentLanguage, userMood, mounted, error>>

\* The body of handleSendMessage.
handleSendMessage ==
  /\ IF trim(inputValue) = <<>>
       THEN UNCHANGED <<messages, inputValue>>
       ELSE /\ Len(messages) + 2 <= 1 + 2 * MaxExchanges
            /\ LET userMessage == [text |-> inputValue, sender |-> "user"]
               IN  \E botResponse \in generateBotResponse(inputValue, currentLanguage) :
                     messages' = messages \o <<userMessage, botResponse>>
            /\ inputValue' = <<>>
  /\ lastOp' = "handleSendMessage"
  /\ UNCHANGED <<currentLanguage, userMood, showMoodSelector, mounted, error>>

\* The send button.
HandleSendMessage ==
  /\ mounted /\ error = NoError
  /\ handleSendMessage

\* onKeyPress of the message input.
HandleKeyPress(key) ==
  /\ mounted /\ error = NoError
  /\ IF key = "Enter" THEN handleSendMessage ELSE UNCHANGED vars

Next ==
  \/ Mount
  \/ \E value \in InputTexts : SetInputValue(value)
  \/ \E value \in Languages : SetCurrentLanguage(value)
  \/ \E mood \in Moods : HandleMoodSelection(mood)
  \/ HandleSendMessage
  \/ \E key \in Keys : HandleKeyPress(key)

Spec == Init /\ [][Next]_vars

\* A mounted session in any language whose user has typed a composed message.
InitClassify ==
  /\ messages = <<[text |-> translations[InitialLanguage].greeting, sender |-> "bot"]>>
  /\ inputValue \in Compose(MaxWords)
  /\ currentLanguage \in Languages
  /\ userMood = null
  /\ showMoodSelector = TRUE
  /\ mounted = TRUE
  /\ error = NoError
  /\ lastOp = "setInputValue"

NextClassify ==
  \/ \E value \in Languages : SetCurrentLanguage(value)
  \/ HandleSendMessage
  \/ \E key \in Keys : HandleKeyPress(key)

SpecClassify == InitClassify /\ [][NextClassify]_vars

\* The session driven by a caller that is not held to the closed sets.
NextOpen ==
  \/ Mount
  \/ \E value \in InputTexts : SetInputValue(value)
  \/ \E value \in LanguageInputs : SetCurrentLanguage(value)
  \/ \E mood \in MoodInputs : HandleMoodSelection(mood)
  \/ HandleSendMessage
  \/ \E key \in Keys : HandleKeyPress(key)

SpecOpen == Init /\ [][NextOpen]_vars

(* ------------------------- notions of the claims ----------------------- *)

IsPrefix(s, t) == Len(s) <= Len(t) /\ SubSeq(t, 1, Len(s)) = s

\* The elements of a list.
Range(list) == {list[i] : i \in 1..Len(list)}

\* A text that is empty or all white space.
Blank(text) == \A i \in 1..Len(text) : text[i] \in WhiteSpace

\* The text holds, in any case, a keyword of the group.
HasKeyword(text, keywords) ==
  \E k \in keywords : includes(toLowerCase(text), k)

\* The category a free text classifies to: low-mood, then anxious, then
\* stressed, and the generic fallback when no keyword matches.
Category(text) ==
  IF HasKeyword(text, depressionKeywords) THEN "depression"
  ELSE IF HasKeyword(text, anxietyKeywords) THEN "anxiety"
  ELSE IF HasKeyword(text, stressKeywords) THEN "stress"
  ELSE "generic"

\* The variant list of a category in a language.
VariantList(category, lang) ==
  IF category = "generic" THEN genericResponses[lang]
  ELSE mentalHealthResponses[category][lang]

\* The place of a language in the lists of fixed mood replies.
LanguageIndex == [english |-> 1, hindi |-> 2, marathi |-> 3, kannada |-> 4]

\* The one reply defined for a mood and a language.
DefinedMoodReply(mood, lang) ==
  CASE mood = "sad" -> mentalHealthResponses.depression[lang][1]
    [] mood = "anxious" -> mentalHealthResponses.anxiety[lang][1]
    [] mood = "angry" -> mentalHealthResponses.stress[lang][1]
    [] mood = "happy" -> happyResponses[LanguageIndex[lang]]
    [] mood = "calm" -> calmResponses[LanguageIndex[lang]]
    [] OTHER -> otherResponses[LanguageIndex[lang]]

\* The step is a call of the handler.
Called(handler) == lastOp' = handler

(* -------------------------------- claims ------------------------------- *)

\* C1: showMoodSelector (moodPromptPending) is true right after the mount
\* effect, false right after any mood selection, and once false in a mounted
\* session it is never true again.
C1_MoodPromptNeverRearmed ==
  /\ [](lastOp = "mount" => showMoodSelector)
  /\ [](lastOp = "handleMoodSelection" => ~showMoodSelector)
  /\ [][(mounted /\ ~showMoodSelector) => ~showMoodSelector']_vars

\* C1 witness: the prompt is still off after a mood selection, a later
\* message and a change of language.
C1_Witness ==
  /\ mounted /\ ~showMoodSelector
  /\ userMood = "calm"
  /\ Len(messages) = 5
  /\ lastOp = "setCurrentLanguage" /\ currentLanguage = "hindi"

\* C2: a mood selection in language L appends exactly two messages, the user's
\* and then the bot's, and the bot's text is the one reply defined for the
\* mood and L (in any session, so in a fresh one).
C2_MoodReplyDeterministic ==
  [][Called("handleMoodSelection") =>
       LET n == Len(messages)
       IN  /\ Len(messages') = n + 2
           /\ IsPrefix(messages, messages')
           /\ messages'[n + 1].sender = "user"
           /\ messages'[n + 2] =
                [text |-> DefinedMoodReply(userMood', currentLanguage), sender |-> "bot"]
    ]_vars

\* C2 witness: 'angry' selected on a fresh session switched to Kannada.
C2_Witness ==
  /\ lastOp = "handleMoodSelection"
  /\ Len(messages) = 3
  /\ currentLanguage = "kannada" /\ userMood = "angry"
  /\ messages[3].text = mentalHealthResponses.stress.kannada[1]

\* C3: a send of a text that is not blank appends exactly two messages, the
\* user's with the raw text and then the bot's, whose text is a variant of the
\* text's category in the language current at the call.
C3_ReplyFromCurrentLanguage ==
  [][(Called("handleSendMessage") /\ ~Blank(inputValue)) =>
       LET n == Len(messages)
       IN  /\ Len(messages') = n + 2
           /\ IsPrefix(messages, messages')
           /\ messages'[n + 1] = [text |-> inputValue, sender |-> "user"]
           /\ messages'[n + 2].sender = "bot"
           /\ messages'[n + 2].text
                \in Range(VariantList(Category(inputValue), currentLanguage))
    ]_vars

\* C3 witness: "hello" sent after a switch to Hindi got the second variant of
\* the Hindi generic list.
C3_Witness ==
  /\ lastOp = "handleSendMessage"
  /\ currentLanguage = "hindi"
  /\ Len(messages) = 3
  \* "hello"
  /\ messages[2].text = <<104, 101, 108, 108, 111>>
  /\ messages[3].text = genericResponses.hindi[2]

\* C4: a sent text with a low-mood keyword gets a low-mood reply whatever
\* other keywords it holds, and one with an anxious keyword and no low-mood
\* keyword gets an anxious reply, wherever the keywords stand in the text.
C4_KeywordPriority ==
  [][(Called("handleSendMessage") /\ ~Blank(inputValue)) =>
       LET reply == messages'[Len(messages')].text
       IN  /\ HasKeyword(inputValue, depressionKeywords) =>
                reply \in Range(mentalHealthResponses.depression[currentLanguage])
           /\ (HasKeyword(inputValue, anxietyKeywords)
                 /\ ~HasKeyword(inputValue, depressionKeywords)) =>
                reply \in Range(mentalHealthResponses.anxiety[currentLanguage])
    ]_vars

\* C4 witness: a message with an anxious keyword before a low-mood keyword
\* got a low-mood reply.
C4_Witness ==
  /\ lastOp = "handleSendMessage"
  /\ Len(messages) = 3
  \* "Panic Sad"
  /\ messages[2].text = <<80, 97, 110, 105, 99, 32, 83, 97, 100>>
  /\ messages[3].text \in Range(mentalHealthResponses.depression[currentLanguage])

\* C5: a send of a blank text changes nothing of the session and throws no
\* error.
C5_BlankSendIsNoOp ==
  [][(Called("handleSendMessage") /\ Blank(inputValue)) =>
       UNCHANGED <<messages, inputValue, currentLanguage, userMood,
                   showMoodSelector, mounted, error>>
    ]_vars

\* C5 witness: the send handler ran last and the input still holds the three
\* spaces (a send that is not blank clears the input), in a session that has
\* a recorded mood and a transcript.
C5_Witness ==
  /\ lastOp = "handleSendMessage"
  \* "   "
  /\ inputValue = <<32, 32, 32>>
  /\ userMood # null
  /\ Len(messages) = 3

\* C6: a change of language changes currentLanguage alone.
C6_SetLanguageOnlyLanguage ==
  [][Called("setCurrentLanguage") =>
       UNCHANGED <<messages, inputValue, userMood, showMoodSelector, mounted>>
    ]_vars

\* C6 witness: the language was changed to Marathi in a session with two
\* exchanges, and the greeting is still the English one.
C6_Witness ==
  /\ lastOp = "setCurrentLanguage"
  /\ currentLanguage = "marathi"
  /\ Len(messages) = 5
  /\ messages[1].text = translations.english.greeting

\* C7: in a mounted session the first message is the bot's greeting in the
\* language the session started in.
C7_FirstTurnIsGreeting ==
  mounted =>
    /\ Len(messages) >= 1
    /\ messages[1] =
         [text |-> translations[InitialLanguage].greeting, sender |-> "bot"]

\* C7 witness: two exchanges and another language later.
C7_Witness ==
  /\ mounted
  /\ currentLanguage = "kannada"
  /\ Len(messages) = 5
  /\ lastOp = "handleSendMessage"

\* C8: every step leaves the transcript a prefix of the new transcript, and a
\* step of a mounted session that appends, appends a user message and then a
\* bot message.
C8_AppendOnly ==
  [][/\ IsPrefix(messages, messages')
     /\ (mounted /\ messages' # messages) =>
          /\ Len(messages') = Len(messages) + 2
          /\ messages'[Len(messages) + 1].sender = "user"
          /\ messages'[Len(messages) + 2].sender = "bot"
    ]_vars

\* C8 witness: the greeting and two free-text exchanges, no mood selected.
C8_Witness ==
  /\ Len(messages) = 5
  /\ messages[2].sender = "user" /\ messages[3].sender = "bot"
  /\ messages[4].sender = "user" /\ messages[5].sender = "bot"
  /\ userMood = null

\* C9: once userMood (recordedMood) is set, no step changes it.
C9_MoodSetOnce ==
  [][userMood # null => userMood' = userMood]_vars

\* C9 witness: the mood recorded first is still recorded after a later
\* message and a change of language.
C9_Witness ==
  /\ userMood = "sad"
  /\ Len(messages) = 5
  \* "hello"
  /\ messages[2].sender = "user" /\ messages[4].text = <<104, 101, 108, 108, 111>>
  /\ lastOp = "setCurrentLanguage"

\* C10 as stated: while showMoodSelector (moodPromptPending) is true the
\* transcript holds no user message.
C10_NoFreeTextBeforeMood ==
  showMoodSelector => \A i \in 1..Len(messages) : messages[i].sender # "user"

\* C10 amended: a send is accepted whether or not the mood prompt is pending,
\* and leaves showMoodSelector as it was; the prompt is pending exactly while
\* no mood is recorded.
C10_SendLeavesPromptPending ==
  /\ [](mounted => (showMoodSelector <=> userMood = null))
  /\ [][Called("handleSendMessage") => showMoodSelector' = showMoodSelector]_vars

\* C10 witness: a free text was sent and answered with the prompt pending.
C10_Witness ==
  /\ showMoodSelector
  /\ lastOp = "handleSendMessage"
  /\ Len(messages) = 3
  \* "hello"
  /\ messages[2] = [text |-> <<104, 101, 108, 108, 111>>, sender |-> "user"]

\* C11 as stated: a mood selection given a mood outside the closed set, and
\* a change of language given a language outside it, throw an error and
\* append nothing to the transcript.
C11_OutOfSetFailsFast ==
  [][((Called("handleMoodSelection") /\ userMood' \notin Moods)
        \/ (Called("setCurrentLanguage") /\ currentLanguage' \notin Languages)) =>
       (error' # NoError /\ messages' = messages)
    ]_vars

====
